---- MODULE Spec2Model ----
(***************************************************************************)
(* A state-machine model of the Sogou/WeChat crawler:                      *)
(*   src/sougou_crawl.py   WeChatCrawler (session, login handshake,        *)
(*                         search, resolve batch, fetch batch, driver)     *)
(*   src/sqlite_storage.py SQLiteArticleStorage (save_article)             *)
(* One control thread runs the public operations; the two batch stages run *)
(* their items on ThreadPoolExecutor workers, modelled as interleaved      *)
(* start/run steps per item.                                               *)
(***************************************************************************)
EXTENDS Integers, Sequences, FiniteSets, TLC

(***************************************************************************)
(* Bounds of the model.                                                    *)
(***************************************************************************)
\* longest listing page a search returns
MaxArticles == 2
\* number of pages past the start page that the page argument may name
MaxPages == 2
\* longest account list read from the configuration file
MaxAccounts == 2
\* largest max_workers a caller gives to a batch function
MaxWorkers == 3
\* number of save_article calls a host makes on the storage itself
MaxSaves == 2

(***************************************************************************)
(* Program constants.                                                      *)
(***************************************************************************)
\* for i in range(60)
PollTicks == 60
\* for p in range(67, page)
StartPage == 67
\* crawl_and_extract(query, page: int = 1, ...)
DefaultPage == 1
\* ThreadPoolExecutor(max_workers=3) of get_real_urls_batch
ResolveWorkers == 3
\* ThreadPoolExecutor(max_workers=2) of fetch_contents_batch
FetchWorkers == 2

(***************************************************************************)
(* Value sets the inputs are drawn from.                                   *)
(***************************************************************************)
\* cookie names: SUID carries an authentication marker, ABTEST does not
Cookies == {"SUID", "ABTEST"}
MarkerCookies == {"SUID"}
\* what page.context.cookies() may hold once the login is seen to succeed
BrowserCookies == {{"ABTEST"}, {"SUID", "ABTEST"}}
\* the search terms: self.keyword is k1; a query may be k1 or another one
Keywords == {"k1", "k2"}

VARIABLES
    \* ---- WeChatCrawler fields
    use_anti_crawler,   \* self.use_anti_crawler
    keyword,            \* self.keyword
    max_workers,        \* max_workers of the two batch functions
    is_logged_in,       \* self.is_logged_in
    login_cookies,      \* names in self.login_session.cookies
    anti_cookies,       \* names in self.anti_crawler_session.session.cookies
    playwright,         \* "none" | "started" (no browser) | "ready"
    \* ---- the outside world
    cookie_file,        \* the file at login_cookie_path
    storage,            \* rows of the articles table
    today,              \* the date datetime.now() reports
    \* ---- control thread
    pc,                 \* position of the control thread
    op,                 \* public operation in progress
    login_site,         \* which call of login() is running
    force_login,        \* its force_login argument
    poll_i,             \* i of the polling loop
    observed,           \* what the pass that set login_success saw
    all_cookies,        \* all_cookies of playwright_login
    login_ret,          \* what the last login() call did: its value or "raised"
    handshake,          \* whether that call ran playwright_login
    \* ---- crawl_and_extract locals
    query, page, get_real_urls, fetch_content,
    articles,           \* the list of WeChatArticle objects
    status,             \* per item: state of its future in the running batch
    searches,           \* the search_articles calls of this crawl_and_extract call
    n_invalidate,       \* times the session was invalidated in this call
    forced_logins,      \* results of login(force_login=True) in this call
    login_failed,       \* a login() made by this call returned False
    crawl_ret,          \* what the last crawl_and_extract call returned
    save_log,           \* the save_article_to_storage calls of this call
    \* ---- crawl_all_configured_accounts locals
    accounts, acct_i, p, page_arg, all_results, crawled, all_ret,
    \* ---- a direct call of one of the text functions
    text_in,            \* the function called and its argument
    text_out            \* <<>> while the call runs, then <<its value>>

\* no text function is under call
NoCall == [fn |-> "none", arg |-> <<>>]

sessionVars == <<is_logged_in, login_cookies, anti_cookies, cookie_file>>
configVars  == <<use_anti_crawler, keyword, max_workers, text_in, text_out>>
loginVars   == <<login_site, force_login, poll_i, observed, all_cookies, login_ret,
                 handshake>>
crawlArgs   == <<query, page, get_real_urls, fetch_content>>
crawlHist   == <<searches, n_invalidate, forced_logins, login_failed>>
crawlVars   == <<query, page, get_real_urls, fetch_content, articles, status,
                 searches, n_invalidate, forced_logins, login_failed, crawl_ret>>
allVars     == <<accounts, acct_i, p, page_arg, all_results, crawled, all_ret>>
vars == <<use_anti_crawler, keyword, max_workers, is_logged_in, login_cookies, anti_cookies,
          playwright, cookie_file, storage, today, pc, op, login_site,
          force_login, poll_i, observed, all_cookies, login_ret, handshake, query, page,
          get_real_urls, fetch_content, articles, status, searches,
          n_invalidate, forced_logins, login_failed, crawl_ret, save_log,
          accounts, acct_i, p, page_arg, all_results, crawled, all_ret,
          text_in, text_out>>

\* the polling loop has seen nothing yet
NoObservation == [marker |-> FALSE, button |-> "visible"]

(***************************************************************************)
(* Values.                                                                 *)
(***************************************************************************)
NoFile == [exists |-> FALSE, valid |-> FALSE, cookies |-> {}]
PickledFile(cs) == [exists |-> TRUE, valid |-> TRUE, cookies |-> cs]
BrokenFile == [exists |-> TRUE, valid |-> FALSE, cookies |-> {}]

\* crawl_and_extract calls the batch functions without max_workers: the
\* defaults of their signatures
DefaultWorkers == [resolve |-> ResolveWorkers, fetch |-> FetchWorkers]

NoResult == [kind |-> "none", success |-> FALSE, message |-> "", data |-> <<>>]
\* {"success": ..., "message": ..., "data": ...}
Result(ok, msg, data) ==
    [kind |-> "result", success |-> ok, message |-> msg, data |-> data]


(***************************************************************************)
(* State after the fields of __init__ are set, before its last statement,  *)
(* self.load_login_cookies(). The cookie file is whatever an earlier run   *)
(* left behind.                                                            *)
(***************************************************************************)
Init ==
    /\ use_anti_crawler \in BOOLEAN
    /\ keyword = "k1"
    /\ max_workers = DefaultWorkers
    /\ is_logged_in = FALSE
    /\ login_cookies = {}
    /\ anti_cookies = {}
    /\ playwright = "none"
    /\ cookie_file \in {NoFile, BrokenFile, PickledFile(Cookies)}
    /\ storage = {}
    /\ today = "D1"
    /\ pc = "ctor"
    /\ op = "none"
    /\ login_site = "none"
    /\ force_login = FALSE
    /\ poll_i = 0
    /\ observed = NoObservation
    /\ all_cookies = {}
    /\ login_ret = "none"
    /\ handshake = FALSE
    /\ query = "k1"
    /\ page = StartPage
    /\ get_real_urls = FALSE
    /\ fetch_content = FALSE
    /\ articles = <<>>
    /\ status = <<>>
    /\ searches = <<>>
    /\ n_invalidate = 0
    /\ forced_logins = <<>>
    /\ login_failed = FALSE
    /\ crawl_ret = NoResult
    /\ save_log = {}
    /\ accounts = <<>>
    /\ acct_i = 0
    /\ p = StartPage
    /\ page_arg = StartPage
    /\ all_results = <<>>
    /\ crawled = {}
    /\ all_ret = NoResult
    /\ text_in = NoCall
    /\ text_out = <<>>

(***************************************************************************)
(* load_login_cookies                                                      *)
(***************************************************************************)
\* an except clause that leaves is_logged_in as the try block set it
ExceptLoad_Kept(flag) == flag

\* the except clause: self.is_logged_in = False, whatever the try block set
ExceptLoad(flag) == FALSE

LoadLoginCookies ==
    /\ pc = "ctor"
    /\ pc' = "idle"
    /\ IF ~cookie_file.exists
       THEN \* os.path.exists is False: nothing is touched
            UNCHANGED <<is_logged_in, login_cookies, anti_cookies>>
       ELSE IF ~cookie_file.valid
       THEN \* pickle.load raises: the except clause
            /\ is_logged_in' = ExceptLoad(is_logged_in)
            /\ UNCHANGED <<login_cookies, anti_cookies>>
       ELSE \/ \* both loops run to their end
               /\ login_cookies' = login_cookies \cup cookie_file.cookies
               /\ is_logged_in' = TRUE
               /\ anti_cookies' = IF use_anti_crawler
                                  THEN anti_cookies \cup cookie_file.cookies
                                  ELSE anti_cookies
            \/ \* a cookie of the first loop raises: the except clause
               \E done \in (SUBSET cookie_file.cookies) \ {cookie_file.cookies} :
                   /\ login_cookies' = login_cookies \cup done
                   /\ is_logged_in' = ExceptLoad(is_logged_in)
                   /\ UNCHANGED anti_cookies
            \/ \* the second loop raises after is_logged_in was set: the except clause
               /\ use_anti_crawler
               /\ \E done \in (SUBSET cookie_file.cookies) \ {cookie_file.cookies} :
                   /\ login_cookies' = login_cookies \cup cookie_file.cookies
                   /\ anti_cookies' = anti_cookies \cup done
                   /\ is_logged_in' = ExceptLoad(TRUE)
    /\ UNCHANGED <<configVars, playwright, cookie_file, storage, today, op,
                   loginVars, crawlVars, save_log, allVars>>

(***************************************************************************)
(* login / playwright_login                                                *)
(***************************************************************************)
\* the return of login(): its value, or "raised" when it raised
LoginReturns(ret, ran) ==
    /\ pc' = "login_returned"
    /\ login_ret' = ret
    /\ handshake' = ran
    /\ poll_i' = 0
    /\ observed' = NoObservation

\* main: crawler.login(); any caller of the public method
CallLogin(force) ==
    /\ pc = "idle"
    /\ pc' = "login"
    /\ op' = "login"
    /\ login_site' = "api"
    /\ force_login' = force
    /\ login_ret' = "none"
    /\ handshake' = FALSE
    /\ UNCHANGED <<configVars, sessionVars, playwright, storage, today, poll_i, observed,
                   all_cookies, crawlVars, save_log, allVars>>

\* a login that runs the handshake although the session is authenticated
AlreadyLoggedIn_Never(force) == FALSE

\* `if self.is_logged_in and not force_login`
AlreadyLoggedIn(force) == is_logged_in /\ ~force

\* login: the early return; playwright_login: init_playwright and the page
\* steps up to the polling loop
Login ==
    /\ pc = "login"
    /\ IF AlreadyLoggedIn(force_login)
       THEN /\ LoginReturns("true", FALSE)
            /\ UNCHANGED playwright
       ELSE \/ \* init_playwright: sync_playwright().start() raises, outside the try
               /\ playwright = "none"
               /\ LoginReturns("raised", TRUE)
               /\ UNCHANGED playwright
            \/ \* init_playwright: chromium.launch raises, self.playwright is set
               /\ playwright = "none"
               /\ playwright' = "started"
               /\ LoginReturns("raised", TRUE)
            \/ \* self.playwright is set and self.browser is None: new_page raises
               \* inside the try
               /\ playwright = "started"
               /\ LoginReturns("false", TRUE)
               /\ UNCHANGED playwright
            \/ \* a page step (new_page .. qrcode wait) raises inside the try
               /\ playwright \in {"none", "ready"}
               /\ playwright' = "ready"
               /\ LoginReturns("false", TRUE)
            \/ \* the page steps succeed: the polling loop starts
               /\ playwright \in {"none", "ready"}
               /\ playwright' = "ready"
               /\ pc' = "poll"
               /\ poll_i' = 0
               /\ observed' = NoObservation
               /\ handshake' = TRUE
               /\ UNCHANGED login_ret
    /\ UNCHANGED <<configVars, sessionVars, storage, today, op, login_site,
                   force_login, all_cookies, crawlVars, save_log, allVars>>

\* login_cookies of the polling loop: the cookies whose name holds a marker
LoginCookiesOf(seen) == seen \cap MarkerCookies

\* what one pass saw: whether a marker cookie was among the cookies, and what
\* login_button.is_visible() gave
Observation(seen, vis) == [marker |-> LoginCookiesOf(seen) # {}, button |-> vis]

\* a pass in which a failing is_visible() counts as a login
LoginSuccess_OnError(seen, vis) ==
    LoginCookiesOf(seen) # {} \/ vis \in {"hidden", "error"}

\* login_success of one pass: a marker cookie, or the button no longer
\* visible; is_visible() raising is swallowed by `except: pass`
LoginSuccess(seen, vis) ==
    LoginCookiesOf(seen) # {} \/ vis = "hidden"

\* one pass of the body of `for i in range(60)`
PollTick ==
    /\ pc = "poll"
    /\ poll_i < PollTicks
    /\ \/ \E seen \in SUBSET Cookies, vis \in {"visible", "hidden", "error"} :
            IF LoginSuccess(seen, vis)
            THEN /\ pc' = "captured"
                 /\ poll_i' = 0
                 /\ observed' = Observation(seen, vis)
                 /\ UNCHANGED <<login_ret, handshake>>
            ELSE /\ poll_i' = poll_i + 1
                 /\ UNCHANGED <<pc, observed, login_ret, handshake>>
       \/ \* page.context.cookies() raises: the except clause of playwright_login
          /\ LoginReturns("false", TRUE)
    /\ UNCHANGED <<configVars, sessionVars, playwright, storage, today, op,
                   login_site, force_login, all_cookies, crawlVars, save_log,
                   allVars>>

\* the loop ran out: login_success is False
PollTimeout ==
    /\ pc = "poll"
    /\ poll_i = PollTicks
    /\ LoginReturns("false", TRUE)
    /\ UNCHANGED <<configVars, sessionVars, playwright, storage, today, op,
                   login_site, force_login, all_cookies, crawlVars,
                   save_log, allVars>>

\* save_login_cookies(cookies): "open" and "dump" are the failures of open()
\* and pickle.dump, swallowed by its except clause
SaveLoginCookies(cookies, outcome) ==
    CASE outcome = "open" ->
            UNCHANGED <<cookie_file, login_cookies, is_logged_in>>
      [] outcome = "dump" ->
            /\ cookie_file' = BrokenFile
            /\ UNCHANGED <<login_cookies, is_logged_in>>
      [] OTHER ->
            /\ cookie_file' = PickledFile(cookies)
            /\ login_cookies' = login_cookies \cup cookies
            /\ is_logged_in' = TRUE

\* playwright_login, the `if login_success` branch to the return
LoginFinish ==
    /\ pc = "captured"
    /\ \/ \* page.context.cookies() raises
          /\ LoginReturns("false", TRUE)
          /\ UNCHANGED <<sessionVars, all_cookies>>
       \/ \E cs \in BrowserCookies, saved \in {"ok", "open", "dump"},
             rest \in {"ok", "sync", "close"} :
            /\ all_cookies' = cs
            /\ SaveLoginCookies(cs, saved)
            /\ rest = "sync" => use_anti_crawler
            /\ anti_cookies' = IF use_anti_crawler /\ rest # "sync"
                               THEN anti_cookies \cup cs
                               ELSE anti_cookies
            /\ LoginReturns(IF rest = "ok" THEN "true" ELSE "false", TRUE)
    /\ UNCHANGED <<configVars, playwright, storage, today, op, login_site,
                   force_login, crawlVars, save_log, allVars>>


(***************************************************************************)
(* Records of a listing page.                                              *)
(***************************************************************************)
\* WeChatArticle as _parse_search_results leaves it
Article(title, publish_time, sogou_url) ==
    [title |-> title, publish_time |-> publish_time, sogou_url |-> sogou_url,
     real_url |-> "", success |-> FALSE, content |-> "",
     content_fetched |-> FALSE]

\* the items a listing page may hold: one with a link and no publish time,
\* one with a publish time and no link
ParsedArticles ==
    {Article("t1", "", "sogou"), Article("t2", "D1 10:00:00", "")}

RECURSIVE SeqsUpTo(_, _)
SeqsUpTo(S, n) ==
    IF n = 0 THEN {<<>>}
    ELSE LET shorter == SeqsUpTo(S, n - 1)
         IN  shorter \cup {Append(q, x) : q \in {r \in shorter : Len(r) = n - 1}, x \in S}

\* what search_articles may return: [] on a RequestException or a page
\* without items, else the parsed items
SearchResults == SeqsUpTo(ParsedArticles, MaxArticles)

\* the page arguments given to crawl_all_configured_accounts: ranges of up
\* to MaxPages pages
Pages == StartPage .. (StartPage + MaxPages)
\* the page arguments of a host that crawls one page per account: the empty
\* range and the range of page 67 alone
OnePage == {StartPage, StartPage + 1}

(***************************************************************************)
(* crawl_and_extract                                                       *)
(***************************************************************************)
\* return {"success": ..., "message": ..., "data": ...}
CrawlReturns(r) ==
    /\ pc' = "crawl_returned"
    /\ crawl_ret' = r

\* the two failure returns and the outermost except clause
Fail(msg) ==
    /\ CrawlReturns(Result(FALSE, msg, <<>>))
    /\ articles' = <<>>
    /\ status' = <<>>

\* the final return
Finish(arts) ==
    /\ CrawlReturns(Result(TRUE, "ok", arts))
    /\ articles' = arts
    /\ status' = <<>>

\* a fetch batch that hands every article to the executor
ValidArticles_All(arts) == DOMAIN arts

\* `articles = self.fetch_contents_batch(articles)`: the valid articles go
\* to the executor; with none the list is returned as it is
ValidArticles(arts) ==
    {i \in DOMAIN arts : arts[i].success /\ arts[i].real_url # ""}

BeginFetch(arts) ==
    IF ValidArticles(arts) = {}
    THEN Finish(arts)
    ELSE /\ pc' = "fetching"
         /\ articles' = arts
         /\ status' = [i \in DOMAIN arts |->
                          IF i \in ValidArticles(arts) THEN "pending" ELSE "skipped"]
         /\ UNCHANGED crawl_ret

\* `if fetch_content and get_real_urls`
FetchStageRuns == fetch_content /\ get_real_urls

\* the stages after a non-empty search
BeginStages(arts) ==
    IF get_real_urls
    THEN /\ pc' = "resolving"
         /\ articles' = arts
         /\ status' = [i \in DOMAIN arts |-> "pending"]
         /\ UNCHANGED crawl_ret
    ELSE IF FetchStageRuns THEN BeginFetch(arts) ELSE Finish(arts)

\* a caller that goes on whatever login() returned
LoginSucceeded_Ignored(ret) == ret \in {"true", "false"}

\* `if not self.login()` and `if login_success`
LoginSucceeded(ret) == ret = "true"

\* entry of crawl_and_extract to the first search
EnterCrawl(q, pg, gru, fc) ==
    /\ query' = q
    /\ page' = pg
    /\ get_real_urls' = gru
    /\ fetch_content' = fc
    /\ articles' = <<>>
    /\ status' = <<>>
    /\ searches' = <<>>
    /\ n_invalidate' = 0
    /\ forced_logins' = <<>>
    /\ login_failed' = FALSE
    /\ crawl_ret' = NoResult
    /\ save_log' = {}
    /\ IF ~is_logged_in
       THEN /\ pc' = "login"
            /\ login_site' = "initial"
            /\ force_login' = FALSE
       ELSE /\ pc' = "search"
            /\ UNCHANGED <<login_site, force_login>>
    /\ UNCHANGED <<login_ret, handshake, poll_i, observed, all_cookies>>

CallCrawlOne(q, pg, gru, fc) ==
    /\ pc = "idle"
    /\ op' = "crawl_one"
    /\ EnterCrawl(q, pg, gru, fc)
    /\ UNCHANGED <<configVars, sessionVars, playwright, storage, today,
                   allVars>>

Searched(outcome) == [query |-> query, page |-> page, outcome |-> outcome]

\* articles = self.search_articles(query, page, ...) and `if not articles`
FirstSearch ==
    /\ pc = "search"
    /\ \/ \* search_articles raises something that is no RequestException
          /\ searches' = Append(searches, Searched("raised"))
          /\ Fail("err_search")
       \/ \E found \in SearchResults :
            /\ searches' = Append(searches, Searched(IF found = <<>> THEN "empty" ELSE "found"))
            /\ IF found = <<>>
               THEN /\ pc' = "invalidate"
                    /\ UNCHANGED <<articles, status, crawl_ret>>
               ELSE BeginStages(found)
    /\ UNCHANGED <<configVars, sessionVars, playwright, storage, today, op,
                   loginVars, crawlArgs, n_invalidate, forced_logins,
                   login_failed, save_log, allVars>>

\* an invalidation that forgets the jar of the anti-crawler session
InvalidateSession_KeepJar ==
    /\ cookie_file' = NoFile
    /\ login_cookies' = {}
    /\ anti_cookies' = anti_cookies
    /\ is_logged_in' = FALSE

\* lines 668-673: remove the cookie file, clear the cookie jars, log out
InvalidateSession ==
    /\ cookie_file' = NoFile
    /\ login_cookies' = {}
    /\ anti_cookies' = IF use_anti_crawler THEN {} ELSE anti_cookies
    /\ is_logged_in' = FALSE

\* the empty-result branch up to the call of login(force_login=True)
Invalidate ==
    /\ pc = "invalidate"
    /\ \/ \* os.remove raises: the outermost except clause
          /\ cookie_file.exists
          /\ Fail("err_remove")
          /\ UNCHANGED <<sessionVars, login_site, force_login, n_invalidate,
                         forced_logins>>
       \/ /\ InvalidateSession
          /\ n_invalidate' = n_invalidate + 1
          /\ forced_logins' = Append(forced_logins, "running")
          /\ pc' = "login"
          /\ login_site' = "forced"
          /\ force_login' = TRUE
          /\ UNCHANGED <<articles, status, crawl_ret>>
    /\ UNCHANGED <<configVars, playwright, storage, today, op, poll_i, observed,
                   all_cookies, login_ret, handshake, crawlArgs, searches,
                   login_failed, save_log, allVars>>

\* a retry that moves on to the next page
RetryPage_Next == page + 1

\* the page the retry searches
RetryPage == page

\* articles = self.search_articles(query, page, ...) after the re-login;
\* sys.exit(0) raises SystemExit, which no `except Exception` catches
RetrySearch ==
    /\ pc = "search_again"
    /\ \/ /\ searches' = Append(searches, [Searched("raised") EXCEPT !.page = RetryPage])
          /\ Fail("err_search")
       \/ \E found \in SearchResults :
            /\ searches' = Append(searches,
                   [Searched(IF found = <<>> THEN "empty" ELSE "found")
                        EXCEPT !.page = RetryPage])
            /\ IF found = <<>>
               THEN /\ pc' = "exited"
                    /\ UNCHANGED <<articles, status, crawl_ret>>
               ELSE BeginStages(found)
    /\ UNCHANGED <<configVars, sessionVars, playwright, storage, today, op,
                   loginVars, crawlArgs, n_invalidate, forced_logins,
                   login_failed, save_log, allVars>>


(***************************************************************************)
(* get_real_urls_batch: executor.map hands the items to the workers in     *)
(* order; list() takes the results in order and, at the first future that  *)
(* raised, cancels the futures not yet started; leaving the `with` block   *)
(* waits for the running ones.                                             *)
(***************************************************************************)
InStatus(S) == {i \in DOMAIN status : status[i] \in S}

\* the next item of the executor's queue
NextPending(i) ==
    /\ i \in DOMAIN status
    /\ status[i] = "pending"
    /\ \A j \in 1 .. (i - 1) : status[j] # "pending"

\* get_real_wechat_url: the URL, or "" for None (no URL in the page, or a
\* RequestException)
GetRealWechatUrl(http) == IF http = "url" THEN "real" ELSE ""

\* process_article
ProcessArticle(a, http) ==
    IF a.sogou_url # ""
    THEN IF GetRealWechatUrl(http) # ""
         THEN [a EXCEPT !.real_url = GetRealWechatUrl(http), !.success = TRUE]
         ELSE [a EXCEPT !.success = FALSE]
    ELSE a

\* a worker thread takes the next item
ResolveStart(i) ==
    /\ pc = "resolving"
    /\ NextPending(i)
    /\ Cardinality(InStatus({"running"})) < max_workers.resolve
    /\ status' = [status EXCEPT ![i] = "running"]
    /\ UNCHANGED <<configVars, sessionVars, playwright, storage, today, pc, op,
                   loginVars, crawlArgs, articles, crawlHist, crawl_ret,
                   save_log, allVars>>

\* the worker runs process_article on its item; "error" is an exception of
\* the HTTP session that is no RequestException, which get_real_wechat_url
\* does not catch
ResolveRun(i) ==
    /\ pc \in {"resolving", "resolve_abort"}
    /\ i \in DOMAIN status
    /\ status[i] = "running"
    /\ \E http \in {"url", "none", "error"} :
          IF http = "error" /\ articles[i].sogou_url # ""
          THEN /\ status' = [status EXCEPT ![i] = "raised"]
               /\ UNCHANGED articles
          ELSE /\ status' = [status EXCEPT ![i] = "done"]
               /\ articles' = [articles EXCEPT ![i] = ProcessArticle(articles[i], http)]
    /\ UNCHANGED <<configVars, sessionVars, playwright, storage, today, pc, op,
                   loginVars, crawlArgs, crawlHist, crawl_ret, save_log, allVars>>

\* list(executor.map(...)) read as results arrive instead of all of them
ResultsComplete_FirstOnly(S) ==
    status[1] \in S

\* list(executor.map(...)) returns once every submitted call has a result
ResultsComplete(S) ==
    \A i \in DOMAIN status : status[i] \in S

\* a `with` block left without waiting for the workers
ExecutorLeft_NoWait ==
    TRUE

\* leaving `with ThreadPoolExecutor(...)` is shutdown(wait=True): the control
\* thread goes on only when no worker of the batch runs
ExecutorLeft ==
    InStatus({"running", "fetched"}) = {}

\* list(executor.map(...)) has every result: the rest of crawl_and_extract
ResolveCollect ==
    /\ pc = "resolving"
    /\ ResultsComplete({"done"})
    /\ IF FetchStageRuns THEN BeginFetch(articles) ELSE Finish(articles)
    /\ UNCHANGED <<configVars, sessionVars, playwright, storage, today, op,
                   loginVars, crawlArgs, crawlHist, save_log, allVars>>

\* list(executor.map(...)) reaches a future that raised: the futures not yet
\* started are cancelled
ResolveCancel ==
    /\ pc = "resolving"
    /\ \E k \in DOMAIN status :
          /\ status[k] = "raised"
          /\ \A j \in 1 .. (k - 1) : status[j] = "done"
    /\ status' = [i \in DOMAIN status |->
                     IF status[i] = "pending" THEN "cancelled" ELSE status[i]]
    /\ pc' = "resolve_abort"
    /\ UNCHANGED <<configVars, sessionVars, playwright, storage, today, op,
                   loginVars, crawlArgs, articles, crawlHist, crawl_ret,
                   save_log, allVars>>

\* the `with` block is left once no worker runs; the exception reaches the
\* outermost except clause of crawl_and_extract
ResolveRaise ==
    /\ pc = "resolve_abort"
    /\ ExecutorLeft
    /\ Fail("err_worker")
    /\ UNCHANGED <<configVars, sessionVars, playwright, storage, today, op,
                   loginVars, crawlArgs, crawlHist, save_log, allVars>>

(***************************************************************************)
(* fetch_contents_batch and the storage                                    *)
(***************************************************************************)
\* fetch_article_content: {"content", "success"}; every exception is caught
FetchArticleContent(http) ==
    CASE http = "text"  -> [content |-> "body", success |-> TRUE]
      [] http = "blank" -> [content |-> "", success |-> TRUE]
      [] OTHER          -> [content |-> "", success |-> FALSE]

\* fetch_content, up to the save
FetchContent(a, http) ==
    IF a.real_url # "" /\ a.success
    THEN [a EXCEPT !.content = FetchArticleContent(http).content,
                   !.content_fetched = FetchArticleContent(http).success]
    ELSE a

\* a worker that saves whatever the fetch gave
ShouldSave_Always(a) == TRUE

\* `if article.content_fetched:` before save_article_to_storage
ShouldSave(a) == a.content_fetched

(***************************************************************************)
(* SQLiteArticleStorage.save_article. The dict handed to it holds a title, *)
(* a keyword and a publish_time that is a "<date> 10:00:00" string, the    *)
(* empty string, or no key at all (Absent).                                *)
(***************************************************************************)
Absent == "absent"
Days == {"D1", "D2"}
\* the instants of a day at which a call may read the clock
Moments == {"am", "pm"}
\* datetime.now().isoformat() at moment m of day d
IsoFormat(d, m) == d \o "T" \o m
\* time.strftime('%Y-%m-%d %H:%M:%S') of a publication on day d
Stamp(d) == d \o " 10:00:00"

\* article_data.get('publish_time', datetime.now().isoformat())
PublishTime(d, now) == IF d.publish_time = Absent THEN now ELSE d.publish_time

\* date_str: publish_time[:10] when the publish time has ten characters,
\* else today's date
DateStr(publish_time) ==
    IF publish_time = "" THEN today
    ELSE CHOOSE d \in Days :
            publish_time \in {Stamp(d)} \cup {IsoFormat(d, m) : m \in Moments}

\* _generate_object_key: f"{date_str}/{content_hash}"; the md5 prefix of
\* title + publish_time is kept as the pair it is taken over
ObjectKey(d, now) ==
    <<DateStr(PublishTime(d, now)), d.title, PublishTime(d, now)>>

\* article_data.get('publish_time', '')
RowPublishTime(d) == IF d.publish_time = Absent THEN "" ELSE d.publish_time

\* the row INSERT OR IGNORE writes
Row(d, now) ==
    [object_key |-> ObjectKey(d, now), title |-> d.title,
     publish_time |-> RowPublishTime(d), keyword |-> d.keyword]

\* a row of the same title and publish time is in the table
Duplicate(store, d) ==
    \E r \in store : r.title = d.title /\ r.publish_time = RowPublishTime(d)

\* save_article: the table after the call and the value returned. The insert
\* is ignored when the object_key is there (rowcount 0, False); db = "error"
\* is an sqlite3.Error of connect, execute or commit, caught by the except
\* clause, which returns False too
SaveArticle(store, d, now, db) ==
    LET new == db = "ok" /\ \A r \in store : r.object_key # ObjectKey(d, now)
    IN  [store |-> IF new THEN store \cup {Row(d, now)} ELSE store,
         result |-> new]

\* article_dict of save_article_to_storage; keyword is self.keyword
ArticleDict(a) ==
    [title |-> a.title, publish_time |-> a.publish_time, keyword |-> keyword]

\* one call of save_article as the log keeps it: the item of the batch (0 for
\* a call made on the storage directly), its number among the calls for that
\* item, the record, and what the call met and returned
SaveCall(i, a, d, db, res) ==
    [item |-> i,
     call |-> Cardinality({c \in save_log : c.item = i}) + 1,
     title |-> d.title, publish_time |-> d.publish_time, keyword |-> d.keyword,
     content |-> a.content, content_fetched |-> a.content_fetched,
     success |-> a.success, today |-> today,
     duplicate |-> Duplicate(storage, d), db |-> db, result |-> res]

\* a worker that takes a failed save for a failed fetch
AfterSave_DropOnFailure(a, storage_success) ==
    IF storage_success THEN a ELSE [a EXCEPT !.content_fetched = FALSE, !.content = ""]

\* `if storage_success:` only logs: the record is as the fetch left it
AfterSave(a, storage_success) == a

FetchStart(i) ==
    /\ pc = "fetching"
    /\ NextPending(i)
    /\ Cardinality(InStatus({"running", "fetched"})) < max_workers.fetch
    /\ status' = [status EXCEPT ![i] = "running"]
    /\ UNCHANGED <<configVars, sessionVars, playwright, storage, today, pc, op,
                   loginVars, crawlArgs, articles, crawlHist, crawl_ret,
                   save_log, allVars>>

\* the worker fetches the page and sets content and content_fetched
FetchRun(i) ==
    /\ pc = "fetching"
    /\ i \in DOMAIN status
    /\ status[i] = "running"
    /\ \E http \in {"text", "blank", "fail"} :
          LET a == FetchContent(articles[i], http)
          IN  /\ articles' = [articles EXCEPT ![i] = a]
              /\ status' = [status EXCEPT ![i] =
                               IF a.real_url # "" /\ a.success /\ ShouldSave(a)
                               THEN "fetched" ELSE "done"]
    /\ UNCHANGED <<configVars, sessionVars, playwright, storage, today, pc, op,
                   loginVars, crawlArgs, crawlHist, crawl_ret, save_log, allVars>>

\* the worker calls save_article_to_storage, which calls save_article
SaveRun(i) ==
    /\ pc = "fetching"
    /\ i \in DOMAIN status
    /\ status[i] = "fetched"
    /\ \E db \in {"ok", "error"}, m \in Moments :
          LET d == ArticleDict(articles[i])
              r == SaveArticle(storage, d, IsoFormat(today, m), db)
          IN  /\ storage' = r.store
              /\ save_log' = save_log \cup {SaveCall(i, articles[i], d, db, r.result)}
              /\ articles' = [articles EXCEPT ![i] = AfterSave(articles[i], r.result)]
    /\ status' = [status EXCEPT ![i] = "done"]
    /\ UNCHANGED <<configVars, sessionVars, playwright, today, pc, op,
                   loginVars, crawlArgs, crawlHist, crawl_ret, allVars>>

\* processed_valid: the valid articles in the order executor.map gives them
ProcessedValid(arts) ==
    SelectSeq(arts, LAMBDA a : a.success /\ a.real_url # "")

\* a merge that puts the processed articles first
Merge_ValidFirst(arts) ==
    ProcessedValid(arts) \o SelectSeq(arts, LAMBDA a : ~(a.success /\ a.real_url # ""))

\* the merge loop: articles[i] is replaced by the processed article that is
\* the same object, the k-th valid one by the k-th of processed_valid
Merge(arts) ==
    [i \in DOMAIN arts |->
        IF i \in ValidArticles(arts)
        THEN ProcessedValid(arts)[Cardinality({j \in ValidArticles(arts) : j <= i})]
        ELSE arts[i]]

\* every worker is done: the merge loop and the return of crawl_and_extract
FetchCollect ==
    /\ pc = "fetching"
    /\ ResultsComplete({"done", "skipped"})
    /\ Finish(Merge(articles))
    /\ UNCHANGED <<configVars, sessionVars, playwright, storage, today, op,
                   loginVars, crawlArgs, crawlHist, save_log, allVars>>


(***************************************************************************)
(* crawl_all_configured_accounts                                           *)
(***************************************************************************)
\* what load_wechat_accounts may return: the lines of the configuration
\* file, here without repeated lines
AccountLists ==
    {a \in SeqsUpTo(Keywords, MaxAccounts) :
        \A i, j \in DOMAIN a : a[i] = a[j] => i = j}

AllReturns(r) ==
    /\ pc' = "all_returned"
    /\ all_ret' = r

\* accounts = self.load_wechat_accounts() to the head of the loops
AllAfterLogin(accts) ==
    /\ accounts' = accts
    /\ IF accts = <<>>
       THEN /\ AllReturns(Result(FALSE, "no_accounts", <<>>))
            /\ acct_i' = 0
            /\ p' = StartPage
       ELSE /\ pc' = "all_loop"
            /\ acct_i' = 1
            /\ p' = StartPage
            /\ all_ret' = NoResult

CallCrawlAll(gru, fc, pg) ==
    /\ pc = "idle"
    /\ op' = "crawl_all"
    /\ get_real_urls' = gru
    /\ fetch_content' = fc
    /\ page_arg' = pg
    /\ all_results' = <<>>
    /\ crawled' = {}
    /\ IF ~is_logged_in
       THEN /\ pc' = "login"
            /\ login_site' = "all"
            /\ force_login' = FALSE
            /\ acct_i' = 0
            /\ p' = StartPage
            /\ all_ret' = NoResult
            /\ accounts' = <<>>
       ELSE /\ \E accts \in AccountLists : AllAfterLogin(accts)
            /\ UNCHANGED <<login_site, force_login>>
    /\ UNCHANGED <<configVars, sessionVars, playwright, storage, today, poll_i, observed,
                   all_cookies, login_ret, handshake, query, page, articles,
                   status, crawlHist, crawl_ret, save_log>>

\* {"account": account, "result": result}, of which the model keeps the
\* account and result['success']
ResultEntry(account, r) == [account |-> account, success |-> r.success]

AnySuccess(results) == \E k \in DOMAIN results : results[k].success

\* the head of `for p in range(67, page)`: the next crawl_and_extract call,
\* or, the range exhausted, the return statement in the body of the loop
\* over the accounts
AllIter ==
    /\ pc = "all_loop"
    /\ IF p < page_arg
       THEN /\ EnterCrawl(accounts[acct_i], p, get_real_urls, fetch_content)
            /\ UNCHANGED all_ret
       ELSE /\ AllReturns(Result(AnySuccess(all_results), "done", all_results))
            /\ UNCHANGED <<loginVars, crawlVars, save_log>>
    /\ UNCHANGED <<configVars, sessionVars, playwright, storage, today, op,
                   accounts, acct_i, p, page_arg, all_results, crawled>>

\* a page loop that stops at the first page that failed
PageLoopGoesOn_OnSuccess(r) == r.success

\* the body of the page loop after the append only logs and sleeps: there is
\* no break, whatever result['success'] is
PageLoopGoesOn(r) == TRUE

\* crawl_and_extract returned: all_results.append(...) and the next page
AllCollect ==
    /\ pc = "crawl_returned"
    /\ op = "crawl_all"
    /\ all_results' = Append(all_results, ResultEntry(accounts[acct_i], crawl_ret))
    /\ crawled' = crawled \cup {<<accounts[acct_i], p>>}
    /\ p' = IF PageLoopGoesOn(crawl_ret) THEN p + 1 ELSE page_arg
    /\ pc' = "all_loop"
    /\ query' = "k1"
    /\ page' = StartPage
    /\ articles' = <<>>
    /\ status' = <<>>
    /\ searches' = <<>>
    /\ n_invalidate' = 0
    /\ forced_logins' = <<>>
    /\ login_failed' = FALSE
    /\ crawl_ret' = NoResult
    /\ save_log' = {}
    /\ UNCHANGED <<configVars, sessionVars, playwright, storage, today, op,
                   loginVars, get_real_urls, fetch_content, accounts, acct_i,
                   page_arg, all_ret>>

(***************************************************************************)
(* The callers of login() take its result.                                 *)
(***************************************************************************)
ClearLogin ==
    /\ login_site' = "none"
    /\ force_login' = FALSE
    /\ UNCHANGED <<poll_i, observed>>
    /\ all_cookies' = {}
    /\ login_ret' = "none"
    /\ handshake' = FALSE

\* the caller of the public method
AfterLoginApi ==
    /\ pc = "login_returned"
    /\ login_site = "api"
    /\ pc' = "idle"
    /\ op' = "none"
    /\ ClearLogin
    /\ UNCHANGED <<configVars, sessionVars, playwright, storage, today,
                   crawlVars, save_log, allVars>>

\* crawl_all_configured_accounts, `if not self.login()`: outside any try
AfterLoginAll ==
    /\ pc = "login_returned"
    /\ login_site = "all"
    /\ IF login_ret = "raised"
       THEN /\ AllReturns([NoResult EXCEPT !.kind = "raised", !.message = "err_playwright"])
            /\ UNCHANGED <<accounts, acct_i, p>>
       ELSE IF LoginSucceeded(login_ret)
       THEN \E accts \in AccountLists : AllAfterLogin(accts)
       ELSE /\ AllReturns(Result(FALSE, "login_failed", <<>>))
            /\ UNCHANGED <<accounts, acct_i, p>>
    /\ ClearLogin
    /\ UNCHANGED <<configVars, sessionVars, playwright, storage, today, op,
                   crawlVars, save_log, page_arg, all_results, crawled>>

\* crawl_and_extract, `if not self.login()`; a raise is caught by the
\* outermost except clause
AfterLoginInitial ==
    /\ pc = "login_returned"
    /\ login_site = "initial"
    /\ login_failed' = (login_ret = "false")
    /\ IF login_ret = "raised"
       THEN Fail("err_playwright")
       ELSE IF LoginSucceeded(login_ret)
       THEN /\ pc' = "search"
            /\ UNCHANGED <<articles, status, crawl_ret>>
       ELSE Fail("login_failed")
    /\ ClearLogin
    /\ UNCHANGED <<configVars, sessionVars, playwright, storage, today, op,
                   crawlArgs, searches, n_invalidate, forced_logins, save_log,
                   allVars>>

\* crawl_and_extract, `login_success = self.login(force_login=True)`
AfterLoginForced ==
    /\ pc = "login_returned"
    /\ login_site = "forced"
    /\ forced_logins' = [forced_logins EXCEPT ![Len(forced_logins)] = login_ret]
    /\ login_failed' = (login_failed \/ login_ret = "false")
    /\ IF login_ret = "raised"
       THEN Fail("err_playwright")
       ELSE IF LoginSucceeded(login_ret)
       THEN /\ pc' = "search_again"
            /\ UNCHANGED <<articles, status, crawl_ret>>
       ELSE Fail("relogin_failed")
    /\ ClearLogin
    /\ UNCHANGED <<configVars, sessionVars, playwright, storage, today, op,
                   crawlArgs, searches, n_invalidate, save_log, allVars>>

(***************************************************************************)
(* The host takes the result of a public operation.                        *)
(***************************************************************************)
ClearCrawl ==
    /\ query' = "k1"
    /\ page' = StartPage
    /\ get_real_urls' = FALSE
    /\ fetch_content' = FALSE
    /\ articles' = <<>>
    /\ status' = <<>>
    /\ searches' = <<>>
    /\ n_invalidate' = 0
    /\ forced_logins' = <<>>
    /\ login_failed' = FALSE
    /\ crawl_ret' = NoResult
    /\ save_log' = {}

CrawlOneDone ==
    /\ pc = "crawl_returned"
    /\ op = "crawl_one"
    /\ pc' = "idle"
    /\ op' = "none"
    /\ ClearCrawl
    /\ UNCHANGED <<configVars, sessionVars, playwright, storage, today,
                   loginVars, allVars>>

AllDone ==
    /\ pc = "all_returned"
    /\ pc' = "idle"
    /\ op' = "none"
    /\ ClearCrawl
    /\ accounts' = <<>>
    /\ acct_i' = 0
    /\ p' = StartPage
    /\ all_results' = <<>>
    /\ crawled' = {}
    /\ all_ret' = NoResult
    /\ page_arg' = StartPage
    /\ UNCHANGED <<configVars, sessionVars, playwright, storage, today,
                   loginVars>>

Next ==
    \/ LoadLoginCookies
    \/ \E force \in BOOLEAN : CallLogin(force)
    \/ Login
    \/ PollTick
    \/ PollTimeout
    \/ LoginFinish
    \/ AfterLoginApi
    \/ AfterLoginAll
    \/ AfterLoginInitial
    \/ AfterLoginForced
    \/ \E q \in Keywords, gru \in BOOLEAN, fc \in BOOLEAN :
          CallCrawlOne(q, DefaultPage, gru, fc)
    \/ FirstSearch
    \/ Invalidate
    \/ RetrySearch
    \/ \E i \in 1 .. MaxArticles : ResolveStart(i)
    \/ \E i \in 1 .. MaxArticles : ResolveRun(i)
    \/ ResolveCollect
    \/ ResolveCancel
    \/ ResolveRaise
    \/ \E i \in 1 .. MaxArticles : FetchStart(i)
    \/ \E i \in 1 .. MaxArticles : FetchRun(i)
    \/ \E i \in 1 .. MaxArticles : SaveRun(i)
    \/ FetchCollect
    \/ CrawlOneDone
    \/ \E gru \in BOOLEAN, fc \in BOOLEAN, pg \in OnePage : CallCrawlAll(gru, fc, pg)
    \/ AllIter
    \/ AllCollect
    \/ AllDone

Spec == Init /\ [][Next]_vars

(***************************************************************************)
(* The driving loop over page ranges of up to MaxPages pages: a host that  *)
(* only calls crawl_all_configured_accounts, with or without the           *)
(* resolution of the links and without the fetch of the contents.          *)
(***************************************************************************)
NextDriver ==
    \/ LoadLoginCookies
    \/ Login
    \/ PollTick
    \/ PollTimeout
    \/ LoginFinish
    \/ AfterLoginAll
    \/ AfterLoginInitial
    \/ AfterLoginForced
    \/ FirstSearch
    \/ Invalidate
    \/ RetrySearch
    \/ \E i \in 1 .. MaxArticles : ResolveStart(i)
    \/ \E i \in 1 .. MaxArticles : ResolveRun(i)
    \/ ResolveCollect
    \/ ResolveCancel
    \/ ResolveRaise
    \/ \E gru \in BOOLEAN, pg \in Pages : CallCrawlAll(gru, FALSE, pg)
    \/ AllIter
    \/ AllCollect
    \/ AllDone

SpecDriver == Init /\ [][NextDriver]_vars

(***************************************************************************)
(* The two batch functions under any worker count: crawl_and_extract from  *)
(* the return of a non-empty search on, the max_workers of                 *)
(* get_real_urls_batch and fetch_contents_batch being any count a caller   *)
(* may give them.                                                          *)
(***************************************************************************)
InitBatch ==
    /\ use_anti_crawler = FALSE
    /\ keyword = "k1"
    /\ max_workers \in [resolve : 1 .. MaxWorkers, fetch : 1 .. MaxWorkers]
    /\ is_logged_in = TRUE
    /\ login_cookies = Cookies
    /\ anti_cookies = {}
    /\ playwright = "none"
    /\ cookie_file = PickledFile(Cookies)
    /\ storage = {}
    /\ today = "D1"
    /\ pc = "resolving"
    /\ op = "crawl_one"
    /\ login_site = "none"
    /\ force_login = FALSE
    /\ poll_i = 0
    /\ observed = NoObservation
    /\ all_cookies = {}
    /\ login_ret = "none"
    /\ handshake = FALSE
    /\ query = "k1"
    /\ page = DefaultPage
    /\ get_real_urls = TRUE
    /\ fetch_content \in BOOLEAN
    /\ articles \in SearchResults \ {<<>>}
    /\ status = [i \in DOMAIN articles |-> "pending"]
    /\ searches = <<[query |-> "k1", page |-> DefaultPage, outcome |-> "found"]>>
    /\ n_invalidate = 0
    /\ forced_logins = <<>>
    /\ login_failed = FALSE
    /\ crawl_ret = NoResult
    /\ save_log = {}
    /\ accounts = <<>>
    /\ acct_i = 0
    /\ p = StartPage
    /\ page_arg = StartPage
    /\ all_results = <<>>
    /\ crawled = {}
    /\ all_ret = NoResult
    /\ text_in = NoCall
    /\ text_out = <<>>

NextBatch ==
    \/ \E i \in 1 .. MaxArticles : ResolveStart(i)
    \/ \E i \in 1 .. MaxArticles : ResolveRun(i)
    \/ ResolveCollect
    \/ ResolveCancel
    \/ ResolveRaise
    \/ \E i \in 1 .. MaxArticles : FetchStart(i)
    \/ \E i \in 1 .. MaxArticles : FetchRun(i)
    \/ \E i \in 1 .. MaxArticles : SaveRun(i)
    \/ FetchCollect

SpecBatch == InitBatch /\ [][NextBatch]_vars

(***************************************************************************)
(* The storage alone: a host that has constructed a SQLiteArticleStorage   *)
(* on an empty database calls save_article itself, one call after another, *)
(* while the days pass.                                                    *)
(***************************************************************************)
\* the dicts given to save_article
ArticleDicts ==
    [title : {"t1", "t2"}, publish_time : {"", Stamp("D1"), Absent},
     keyword : {"k1"}]

\* the fields of a dict that save_article does not read for the key
OtherFields == [content |-> "body", content_fetched |-> TRUE, success |-> TRUE]

storeFrame == <<configVars, sessionVars, playwright, pc, op, loginVars,
                crawlVars, allVars>>

InitStore ==
    /\ use_anti_crawler = FALSE
    /\ keyword = "k1"
    /\ max_workers = DefaultWorkers
    /\ is_logged_in = FALSE
    /\ login_cookies = {}
    /\ anti_cookies = {}
    /\ playwright = "none"
    /\ cookie_file = NoFile
    /\ storage = {}
    /\ today = "D1"
    /\ pc = "store"
    /\ op = "store"
    /\ login_site = "none"
    /\ force_login = FALSE
    /\ poll_i = 0
    /\ observed = NoObservation
    /\ all_cookies = {}
    /\ login_ret = "none"
    /\ handshake = FALSE
    /\ query = "k1"
    /\ page = StartPage
    /\ get_real_urls = FALSE
    /\ fetch_content = FALSE
    /\ articles = <<>>
    /\ status = <<>>
    /\ searches = <<>>
    /\ n_invalidate = 0
    /\ forced_logins = <<>>
    /\ login_failed = FALSE
    /\ crawl_ret = NoResult
    /\ save_log = {}
    /\ accounts = <<>>
    /\ acct_i = 0
    /\ p = StartPage
    /\ page_arg = StartPage
    /\ all_results = <<>>
    /\ crawled = {}
    /\ all_ret = NoResult
    /\ text_in = NoCall
    /\ text_out = <<>>

\* storage.save_article(d), called at moment m of today
StoreSave(d, m, db) ==
    /\ pc = "store"
    /\ Cardinality(save_log) < MaxSaves
    /\ LET r == SaveArticle(storage, d, IsoFormat(today, m), db)
       IN  /\ storage' = r.store
           /\ save_log' = save_log \cup {SaveCall(0, OtherFields, d, db, r.result)}
    /\ UNCHANGED <<today, storeFrame>>

\* midnight
DayPasses ==
    /\ pc = "store"
    /\ today = "D1"
    /\ today' = "D2"
    /\ UNCHANGED <<storage, save_log, storeFrame>>

NextStore ==
    \/ \E d \in ArticleDicts, m \in Moments, db \in {"ok", "error"} : StoreSave(d, m, db)
    \/ DayPasses

SpecStore == InitStore /\ [][NextStore]_vars


(***************************************************************************)
(* The text functions, called on their own: extract_real_url, the summary  *)
(* rule of _parse_search_results and extract_article_text.  A page is a    *)
(* sequence of lexemes; a regular expression is matched lexeme by lexeme.  *)
(***************************************************************************)
\* longest redirect page, in chunks
MaxChunks == 3

\* the head of full_url_pattern
ArticlePrefix == "https://mp.weixin.qq.com/s?"

\* what a redirect page is made of; "x" is any text without quote or blank
Lexemes == {"url +=", " ", "'", ";", "\"", ArticlePrefix, "x"}

\* the statement  url += '<f>';  of the redirect script
Fragment(f) == <<"url +=", " ", "'">> \o f \o <<"'", ";">>

Chunks ==
    {Fragment(<<"x">>), Fragment(<<ArticlePrefix>>), Fragment(<<>>)}
        \cup {<<l>> : l \in Lexemes}

RECURSIVE Flatten(_)
Flatten(ss) ==
    IF ss = <<>> THEN <<>> ELSE Head(ss) \o Flatten(Tail(ss))

\* the response_text values
Bodies == {Flatten(cs) : cs \in SeqsUpTo(Chunks, MaxChunks)}

\* Optional[str]
None == [none |-> TRUE, url |-> <<>>]
Url(u) == [none |-> FALSE, url |-> u]

\* a character class [^...] repeated from position i on: the first position
\* it does not take
RunEnd(text, i, stop) ==
    CHOOSE j \in i .. (Len(text) + 1) :
        /\ \A k \in i .. (j - 1) : text[k] \notin stop
        /\ j = Len(text) + 1 \/ text[j] \in stop

\* url_pattern matched at position i: the position after the group, 0 when
\* the pattern does not match there ([^']+ takes at least one lexeme)
url_pattern(text, i) ==
    IF /\ i + 2 <= Len(text)
       /\ text[i] = "url +=" /\ text[i + 1] = " " /\ text[i + 2] = "'"
       /\ RunEnd(text, i + 3, {"'"}) > i + 3
       /\ RunEnd(text, i + 3, {"'"}) + 1 <= Len(text)
       /\ text[RunEnd(text, i + 3, {"'"})] = "'"
       /\ text[RunEnd(text, i + 3, {"'"}) + 1] = ";"
    THEN RunEnd(text, i + 3, {"'"})
    ELSE 0

\* re.findall(url_pattern, text) from position i on: the groups of the
\* matches found scanning left to right, each scan resuming after a match
RECURSIVE FindAll(_, _)
FindAll(text, i) ==
    IF i > Len(text) THEN <<>>
    ELSE IF url_pattern(text, i) # 0
         THEN <<SubSeq(text, i + 3, url_pattern(text, i) - 1)>>
                  \o FindAll(text, url_pattern(text, i) + 2)
         ELSE FindAll(text, i + 1)

\* only the first match is kept
Join_FirstOnly(matches) ==
    Head(matches)

\* ''.join(matches)
RECURSIVE Join(_)
Join(matches) ==
    IF matches = <<>> THEN <<>> ELSE Head(matches) \o Join(Tail(matches))

\* str.strip()
RECURSIVE Strip(_)
Strip(t) ==
    IF t = <<>> THEN <<>>
    ELSE IF Head(t) = " " THEN Strip(Tail(t))
    ELSE IF t[Len(t)] = " " THEN Strip(SubSeq(t, 1, Len(t) - 1))
    ELSE t

\* re.search(full_url_pattern, text).group(0): from the leftmost prefix up
\* to the next quote of either kind; <<>> when there is no prefix
FullMatch(text) ==
    IF \E i \in DOMAIN text : text[i] = ArticlePrefix
    THEN LET i == CHOOSE k \in DOMAIN text :
                     /\ text[k] = ArticlePrefix
                     /\ \A j \in 1 .. (k - 1) : text[j] # ArticlePrefix
         IN  SubSeq(text, i, RunEnd(text, i + 1, {"'", "\""}) - 1)
    ELSE <<>>

ExtractRealUrl(response_text) ==
    LET matches == FindAll(response_text, 1)
    IN  IF matches # <<>> THEN Url(Join(matches))
        ELSE IF FullMatch(response_text) # <<>>
             THEN Url(Strip(FullMatch(response_text)))
             ELSE None

\* ---- the summary of _parse_search_results

\* characters a paragraph may have beyond the cut
MaxOver == 3

\* text[:300]
SummaryLimit == 300

\* len(text) > 20
MinSummaryLen == 20

\* how long the paragraph of a call is
ParagraphLens == 0 .. (SummaryLimit + MaxOver)

\* a text of n characters
Text(n) == [i \in 1 .. n |-> "c"]

\* '...'
Ellipsis == <<".", ".", ".">>

\* what the three searches of lines 514-516 tell apart in a paragraph: it
\* holds a date, a relative time, the name of the platform, or none of them
ParagraphKinds == {"plain", "date", "relative", "platform"}

\* the <p> elements of a listing item: one paragraph, or that paragraph
\* after a short one
SummaryElems ==
    {<<[kind |-> k, text |-> Text(n)]>> : k \in ParagraphKinds, n \in ParagraphLens}
        \cup {<<[kind |-> "plain", text |-> Text(MinSummaryLen)],
                [kind |-> "plain", text |-> Text(n)]>> : n \in ParagraphLens}

\* the condition of lines 513-516
IsSummary(p_elem) ==
    Len(p_elem.text) > MinSummaryLen /\ p_elem.kind = "plain"

\* text[:300] + '...' if len(text) > 300 else text
Truncate(text) ==
    IF Len(text) > SummaryLimit
    THEN SubSeq(text, 1, SummaryLimit) \o Ellipsis
    ELSE text

\* article.summary after the loop over summary_elems: the first paragraph
\* that passes, the default "" when none does
Summary(summary_elems) ==
    IF \E i \in DOMAIN summary_elems : IsSummary(summary_elems[i])
    THEN LET i == CHOOSE k \in DOMAIN summary_elems :
                     /\ IsSummary(summary_elems[k])
                     /\ \A j \in 1 .. (k - 1) : ~IsSummary(summary_elems[j])
         IN  Truncate(summary_elems[i].text)
    ELSE <<>>

\* ---- extract_article_text

content_selectors ==
    <<"#js_content", ".rich_media_content", ".article-content", ".content",
      "article", ".post-content">>

\* what select_one(selector) finds in a page: no element, an element without
\* text, an element with text
Finds == {"none", "empty", "text"}

\* the pages: what each selector finds and what soup.find("body") finds
Pages_html ==
    {[elems |-> f, body |-> b] : f \in [DOMAIN content_selectors -> Finds], b \in Finds}

\* element.get_text(separator='\n', strip=True), lines cleaned
GetText(found, name) ==
    IF found = "text" THEN "text of " \o name ELSE ""

\* the tuple extract_article_text returns: clean_content, address_text
ExtractArticleText(html) ==
    LET matched == {i \in DOMAIN content_selectors : html.elems[i] # "none"}
        first == CHOOSE i \in matched : \A j \in matched : i <= j
        content_text ==
            IF matched = {} THEN ""
            ELSE GetText(html.elems[first], content_selectors[first])
    IN  IF content_text = "" /\ html.body # "none"
        THEN <<GetText(html.body, "body"), "">>
        ELSE <<content_text, "">>

textFrame == <<use_anti_crawler, keyword, max_workers, text_in, sessionVars,
               playwright, storage, today, pc, op, loginVars, crawlVars,
               save_log, allVars>>

\* the calls made
TextCalls ==
    {[fn |-> "extract_real_url", arg |-> b] : b \in Bodies}
        \cup {[fn |-> "summary", arg |-> ps] : ps \in SummaryElems}
        \cup {[fn |-> "extract_article_text", arg |-> h] : h \in Pages_html}

InitText ==
    /\ use_anti_crawler = FALSE
    /\ keyword = "k1"
    /\ max_workers = DefaultWorkers
    /\ is_logged_in = FALSE
    /\ login_cookies = {}
    /\ anti_cookies = {}
    /\ playwright = "none"
    /\ cookie_file = NoFile
    /\ storage = {}
    /\ today = "D1"
    /\ pc = "text"
    /\ op = "text"
    /\ login_site = "none"
    /\ force_login = FALSE
    /\ poll_i = 0
    /\ observed = NoObservation
    /\ all_cookies = {}
    /\ login_ret = "none"
    /\ handshake = FALSE
    /\ query = "k1"
    /\ page = StartPage
    /\ get_real_urls = FALSE
    /\ fetch_content = FALSE
    /\ articles = <<>>
    /\ status = <<>>
    /\ searches = <<>>
    /\ n_invalidate = 0
    /\ forced_logins = <<>>
    /\ login_failed = FALSE
    /\ crawl_ret = NoResult
    /\ save_log = {}
    /\ accounts = <<>>
    /\ acct_i = 0
    /\ p = StartPage
    /\ page_arg = StartPage
    /\ all_results = <<>>
    /\ crawled = {}
    /\ all_ret = NoResult
    /\ text_in \in TextCalls
    /\ text_out = <<>>

\* self.extract_real_url(response_text)
ExtractRealUrlCall ==
    /\ pc = "text"
    /\ text_in.fn = "extract_real_url"
    /\ text_out = <<>>
    /\ text_out' = <<ExtractRealUrl(text_in.arg)>>
    /\ UNCHANGED textFrame

\* the summary step of _parse_search_results on the paragraphs of one item
SummaryCall ==
    /\ pc = "text"
    /\ text_in.fn = "summary"
    /\ text_out = <<>>
    /\ text_out' = <<Summary(text_in.arg)>>
    /\ UNCHANGED textFrame

\* self.extract_article_text(html_content)
ExtractArticleTextCall ==
    /\ pc = "text"
    /\ text_in.fn = "extract_article_text"
    /\ text_out = <<>>
    /\ text_out' = <<ExtractArticleText(text_in.arg)>>
    /\ UNCHANGED textFrame

NextText ==
    \/ ExtractRealUrlCall
    \/ SummaryCall
    \/ ExtractArticleTextCall

SpecText == InitText /\ [][NextText]_vars


(***************************************************************************)
(* Properties.                                                             *)
(***************************************************************************)

\* C1: at every point of a crawl a record with content_fetched = True has
\* success = True (its URL was resolved), in the working list and in the
\* returned data alike, and save_article_to_storage is only ever called on a
\* record whose content_fetched is True at the call.
C1_FetchedOnlyResolvedSavedOnlyFetched ==
    /\ \A i \in DOMAIN articles : articles[i].content_fetched => articles[i].success
    /\ \A i \in DOMAIN crawl_ret.data :
          crawl_ret.data[i].content_fetched => crawl_ret.data[i].success
    /\ \A i \in DOMAIN status : status[i] = "fetched" => articles[i].content_fetched
    /\ \A c \in save_log : c.content_fetched /\ c.success

\* a save was called in a batch that also holds a record that was not resolved
C1_Witness ==
    /\ save_log # {}
    /\ \E i \in DOMAIN articles : ~articles[i].success

\* C2 (as claimed): after an empty first search, a successful forced re-login
\* and an empty retry search, crawl_and_extract has returned a result to its
\* caller.
C2_TerminalResultReturned ==
    ( /\ Len(searches) = 2
      /\ searches[1].outcome = "empty"
      /\ searches[2].outcome = "empty" )
    => (pc = "crawl_returned" /\ crawl_ret.kind = "result")

\* C3: within one crawl_and_extract call the session is invalidated at most
\* once, login(force_login=True) is called at most once, at most two searches
\* are made, and the second one comes only after an empty first search and a
\* forced re-login that returned True, with the query and page of the first.
C3_OneRetrySamePage ==
    /\ n_invalidate <= 1
    /\ Len(forced_logins) <= 1
    /\ Len(searches) <= 2
    /\ (pc = "search_again" \/ Len(searches) = 2) =>
          /\ searches[1].outcome = "empty"
          /\ forced_logins = <<"true">>
          /\ n_invalidate = 1
    /\ Len(searches) = 2 =>
          /\ searches[2].query = searches[1].query
          /\ searches[2].page = searches[1].page

\* the retry search was made
C3_Witness == Len(searches) = 2 /\ searches[2].outcome = "found"

\* C4: when login(force_login=True) is about to run after an empty first
\* search, the cookie file is gone, both cookie jars are empty and
\* is_logged_in is False; it is only reached through the invalidation.
C4_InvalidatedBeforeRelogin ==
    (pc = "login" /\ login_site = "forced") =>
        /\ ~cookie_file.exists
        /\ login_cookies = {}
        /\ anti_cookies = {}
        /\ ~is_logged_in
        /\ n_invalidate = 1
        /\ Len(searches) = 1 /\ searches[1].outcome = "empty"

\* the forced re-login is about to run with the anti-crawler session in use
C4_Witness == pc = "login" /\ login_site = "forced" /\ use_anti_crawler

\* C5 (as claimed): when crawl_all_configured_accounts has run its loops to
\* the end, every configured account has an entry in the collected results
\* and every page of the range was crawled for it.
C5_EveryAccountCrawled ==
    (pc = "all_returned" /\ all_ret.kind = "result" /\ all_ret.message = "done"
        /\ page_arg > StartPage) =>
        \A k \in DOMAIN accounts :
            /\ \E e \in DOMAIN all_results : all_results[e].account = accounts[k]
            /\ \A pg \in StartPage .. (page_arg - 1) : <<accounts[k], pg>> \in crawled

\* C6 (as claimed): crawl_and_extract never ends the process and never
\* raises; whenever it is left, its caller holds a result with success and
\* message.
C6_NeverExitsAlwaysResult ==
    /\ pc # "exited"
    /\ pc = "crawl_returned" => (crawl_ret.kind = "result" /\ crawl_ret.message # "")

\* C7: once a login() called by crawl_and_extract has returned False, the
\* call has returned success = False without records, and nothing was
\* searched, resolved, fetched or saved after the failed login.
C7_FailedLoginAborts ==
    login_failed =>
        /\ pc = "crawl_returned"
        /\ crawl_ret.kind = "result"
        /\ ~crawl_ret.success
        /\ crawl_ret.data = <<>>
        /\ articles = <<>>
        /\ status = <<>>
        /\ save_log = {}
        /\ Len(searches) = Len(forced_logins)
        /\ \A k \in DOMAIN searches : searches[k].outcome = "empty"

\* the forced re-login failed
C7_Witness == login_failed /\ forced_logins = <<"false">>

\* C8 (as claimed): when login() returns True after running the handshake,
\* is_logged_in is True, the captured cookies are in the cookie file and in
\* the cookie jars.
C8_TrueLoginIsAuthenticated ==
    (pc = "login_returned" /\ login_ret = "true" /\ handshake) =>
        /\ is_logged_in
        /\ cookie_file = PickledFile(all_cookies)
        /\ all_cookies \subseteq login_cookies
        /\ use_anti_crawler => all_cookies \subseteq anti_cookies

\* C9 (as claimed): when login() returns False after running the handshake,
\* is_logged_in is False.
C9_FalseLoginIsUnauthenticated ==
    (pc = "login_returned" /\ login_ret = "false" /\ handshake) => ~is_logged_in

\* C10 (as claimed): login() never raises to its caller.
C10_LoginNeverRaises == login_ret # "raised"

\* C11: a step of login(force_login=False) taken while is_logged_in is True
\* returns True at once, without playwright_login, and changes neither
\* is_logged_in, nor the two cookie jars, nor the cookie file, nor the browser.
C11_LoggedInLoginIsNoOp ==
    [][(pc = "login" /\ is_logged_in /\ ~force_login) =>
          /\ pc' = "login_returned"
          /\ login_ret' = "true"
          /\ ~handshake'
          /\ UNCHANGED <<sessionVars, playwright>>]_vars

\* login() returned True without the handshake on a session with cookies
C11_Witness ==
    /\ pc = "login_returned" /\ login_ret = "true" /\ ~handshake
    /\ is_logged_in /\ login_cookies # {}

\* C12: load_login_cookies always returns to the constructor, and after it
\* is_logged_in is True exactly when the cookie file existed, unpickled, and
\* every cookie of it was set in login_session and, with the anti-crawler
\* session in use, in that session too; the file itself is not changed.
C12_LoadedIffWholeFileInstalled ==
    [][pc = "ctor" =>
          /\ pc' = "idle"
          /\ UNCHANGED cookie_file
          /\ is_logged_in' <=>
                /\ cookie_file.exists /\ cookie_file.valid
                /\ cookie_file.cookies \subseteq login_cookies'
                /\ use_anti_crawler => cookie_file.cookies \subseteq anti_cookies']_vars

\* the constructor is done and the load stopped in the second loop: the
\* cookies are in login_session, not all in the anti-crawler session
C12_Witness ==
    /\ pc = "idle" /\ op = "none" /\ ~is_logged_in
    /\ cookie_file = PickledFile(Cookies) /\ login_cookies = Cookies
    /\ anti_cookies # Cookies /\ playwright = "none"

\* C13: the fetch batch runs only in a call with fetch_content and
\* get_real_urls both True; in it only records with success = True and a
\* non-empty real_url are handed to a fetch worker; in a call without both
\* flags nothing is fetched or saved; and a record with success = False never
\* has content, content_fetched or a save call, in the working list and in
\* the returned data alike.
C13_FetchStageOnlyResolved ==
    /\ pc = "fetching" =>
          /\ fetch_content /\ get_real_urls
          /\ \A i \in DOMAIN status :
                status[i] # "skipped" =>
                    (articles[i].success /\ articles[i].real_url # "")
    /\ ~(fetch_content /\ get_real_urls) =>
          /\ save_log = {}
          /\ \A i \in DOMAIN articles :
                ~articles[i].content_fetched /\ articles[i].content = ""
    /\ \A i \in DOMAIN articles :
          ~articles[i].success =>
              (~articles[i].content_fetched /\ articles[i].content = "")
    /\ \A i \in DOMAIN crawl_ret.data :
          ~crawl_ret.data[i].success =>
              (~crawl_ret.data[i].content_fetched /\ crawl_ret.data[i].content = "")
    /\ \A c \in save_log : c.success

\* a fetch batch in which one record is skipped as unresolved while a worker
\* holds another
C13_Witness ==
    /\ pc = "fetching"
    /\ \E i, j \in DOMAIN status : status[i] = "skipped" /\ status[j] = "running"

\* C14: in the fetch batch save_article_to_storage is called exactly once for
\* every record whose fetch succeeded, by the worker that fetched it and
\* before that worker is done with the item, and for no other record; a save
\* that returned False leaves the record with content_fetched = True and its
\* content, and crawl_and_extract returns success = True with that record.
C14_SavedOncePerFetchedItem ==
    /\ \A c \in save_log : c.call = 1 /\ c.content_fetched
    /\ pc = "fetching" =>
          \A i \in DOMAIN status :
             LET calls == {c \in save_log : c.item = i}
             IN  /\ status[i] = "fetched" => (articles[i].content_fetched /\ calls = {})
                 /\ status[i] = "done" =>
                       (Cardinality(calls) = IF articles[i].content_fetched THEN 1 ELSE 0)
                 /\ status[i] \notin {"fetched", "done"} => calls = {}
    /\ pc \in {"fetching", "crawl_returned"} =>
          \A c \in save_log :
             /\ c.item \in DOMAIN articles
             /\ articles[c.item].title = c.title
             /\ articles[c.item].content_fetched
             /\ articles[c.item].content = c.content
    /\ (pc = "crawl_returned" /\ fetch_content /\ get_real_urls /\ crawl_ret.success) =>
          \A i \in DOMAIN crawl_ret.data :
             crawl_ret.data[i].content_fetched <=> (\E c \in save_log : c.item = i)
    /\ (pc = "crawl_returned" /\ save_log # {}) =>
          (crawl_ret.success /\ crawl_ret.data = articles)

\* crawl_and_extract has returned a batch in which one save met a duplicate
\* and another a database error
C14_Witness ==
    /\ pc = "crawl_returned" /\ crawl_ret.success
    /\ \E c \in save_log : ~c.result /\ c.db = "ok"
    /\ \E c \in save_log : ~c.result /\ c.db = "error" /\ c.content = "body"

C16_ItemFailureIsolated ==
    /\ pc # "resolve_abort"
    /\ \A i \in DOMAIN status : status[i] # "cancelled"
    /\ (pc = "crawl_returned" /\ searches # <<>>
            /\ searches[Len(searches)].outcome = "found") =>
          (crawl_ret.success /\ crawl_ret.data # <<>>)

\* C17: in crawl_all_configured_accounts every page from 67 up to the one
\* being crawled has its entry in all_results, in page order, failed pages
\* included; so after a page that failed (and did not end the process) the
\* next page of the same account is crawled, and when the loop returns every
\* page of the range has an entry.
C17_FailedPageDoesNotStopLoop ==
    /\ (op = "crawl_all" /\ acct_i >= 1 /\ pc # "all_returned") =>
          /\ Len(all_results) = p - StartPage
          /\ crawled = {<<accounts[acct_i], q>> : q \in StartPage .. (p - 1)}
          /\ \A k \in DOMAIN all_results : all_results[k].account = accounts[acct_i]
          /\ pc # "all_loop" => (p < page_arg /\ query = accounts[acct_i] /\ page = p)
    /\ (pc = "all_returned" /\ all_ret.kind = "result" /\ all_ret.message = "done") =>
          /\ p >= page_arg
          /\ Len(all_ret.data) = p - StartPage
          /\ all_ret.data = all_results

\* the first page of the account failed and its second page is being crawled
C17_Witness ==
    /\ op = "crawl_all" /\ pc = "search" /\ p = StartPage + 1
    /\ Len(all_results) = 1 /\ ~all_results[1].success

\* C18 (as claimed): when the first two save_article calls on an empty store
\* are given the same title and the same publish time (a string, the empty
\* string or none) and meet no database error, the first returns True, the
\* second False, and the table holds one row of that title and publish time.
C18_SecondSaveOfSameRecordIsFalse ==
    \A c1, c2 \in save_log :
        ( /\ c1.item = 0 /\ c2.item = 0 /\ c1.call = 1 /\ c2.call = 2
          /\ c1.title = c2.title /\ c1.publish_time = c2.publish_time
          /\ c1.db = "ok" /\ c2.db = "ok" ) =>
            /\ c1.result
            /\ ~c2.result
            /\ Cardinality({r \in storage :
                    r.title = c1.title /\ r.publish_time = RowPublishTime(c1)}) = 1

\* C19 (as claimed): whatever save calls were made, the table holds at most
\* one row per title and publish time, and of the calls given one title and
\* one publish-time string (empty or not) at most one returned True.
C19_OneRowPerTitleAndPublishTime ==
    /\ \A r1, r2 \in storage :
          (r1.title = r2.title /\ r1.publish_time = r2.publish_time
              /\ r1.object_key[3] = r1.publish_time
              /\ r2.object_key[3] = r2.publish_time) => r1 = r2
    /\ \A c1, c2 \in save_log :
          (c1.title = c2.title /\ c1.publish_time = c2.publish_time
              /\ c1.publish_time # Absent /\ c1.result /\ c2.result) => c1 = c2

\* C20 (as claimed): a save_article call that returns False found a row of
\* the same title and publish time in the table.
C20_FalseMeansDuplicate ==
    \A c \in save_log : ~c.result => c.duplicate

\* C21: while a resolve or fetch worker of a batch runs, the control thread
\* stays inside that batch and neither the login flag, the session cookies,
\* the anti-crawler cookies nor the cookie file change, and no login step is
\* taken; the positions of the constructor, the login and the invalidation
\* are held with no batch at all.
C21_NoSessionChangeWhileWorkerRuns ==
    /\ [](pc \in {"ctor", "login", "poll", "captured", "invalidate"} => status = <<>>)
    /\ [][ InStatus({"running", "fetched"}) # {} =>
              /\ UNCHANGED sessionVars
              /\ UNCHANGED <<poll_i, login_ret, handshake, forced_logins, n_invalidate>>
              /\ pc' \in {"resolving", "resolve_abort", "fetching"} ]_vars

\* a worker runs in a crawl whose session was invalidated and installed
\* again by a forced login before the batch
C21_Witness ==
    /\ InStatus({"running"}) # {}
    /\ n_invalidate > 0
    /\ is_logged_in
    /\ login_cookies # {}

\* C22: for every redirect page, when the page holds statements
\* url += '<fragment>'; (a fragment being one or more characters other than
\* the quote) extract_real_url returns the fragments concatenated in their
\* order of appearance; when it holds none but holds the article prefix, it
\* returns the text from the leftmost prefix up to the next quote, without
\* the blanks at its end; otherwise it returns None; and the call changes
\* nothing of the crawler.
C22_FragmentsJoinedElseLiteralElseNone ==
    /\ [](( text_in.fn = "extract_real_url" /\ text_out # <<>> ) =>
            LET body == text_in.arg
                out  == text_out[1]
                IsFragment(i, e) ==
                    /\ i + 3 < e /\ e + 1 <= Len(body)
                    /\ body[i] = "url +=" /\ body[i + 1] = " " /\ body[i + 2] = "'"
                    /\ \A k \in (i + 3) .. (e - 1) : body[k] # "'"
                    /\ body[e] = "'" /\ body[e + 1] = ";"
                Fragments ==
                    {f \in (1 .. Len(body)) \X (1 .. Len(body)) : IsFragment(f[1], f[2])}
                Leftmost(S) == CHOOSE f \in S : \A g \in S : f[1] <= g[1]
                RECURSIVE InOrder(_)
                InOrder(S) ==
                    IF S = {} THEN <<>>
                    ELSE SubSeq(body, Leftmost(S)[1] + 3, Leftmost(S)[2] - 1)
                             \o InOrder(S \ {Leftmost(S)})
                Prefixes == {i \in 1 .. Len(body) : body[i] = ArticlePrefix}
                IsLiteral(i, j) ==
                    /\ i \in Prefixes /\ \A k \in Prefixes : i <= k
                    /\ i <= j /\ j <= Len(body)
                    /\ \A k \in i .. j : body[k] \notin {"'", "\""}
                    /\ body[j] # " "
                    /\ \E q \in (j + 1) .. (Len(body) + 1) :
                          /\ \A k \in (j + 1) .. (q - 1) : body[k] = " "
                          /\ q = Len(body) + 1 \/ body[q] \in {"'", "\""}
            IN  IF Fragments # {}
                THEN out = Url(InOrder(Fragments))
                ELSE IF Prefixes # {}
                     THEN /\ ~out.none
                          /\ \E i, j \in 1 .. Len(body) :
                                IsLiteral(i, j) /\ out.url = SubSeq(body, i, j)
                     ELSE out = None)
    /\ [][text_in.fn = "extract_real_url" => UNCHANGED textFrame]_vars

\* a page with two different fragments and a literal besides: the call
\* returned the two fragments joined, in the order of the page
C22_Witness ==
    /\ text_in.fn = "extract_real_url"
    /\ text_in.arg = Fragment(<<ArticlePrefix>>) \o Fragment(<<"x">>) \o <<ArticlePrefix>>
    /\ text_out = <<Url(<<ArticlePrefix, "x">>)>>

\* C23 (as claimed): at every point of a crawl, a record has success set
\* exactly when its real_url is not empty, and content_fetched set exactly
\* when its content is not empty.
C23_FlagsMatchFields ==
    \A i \in DOMAIN articles :
        /\ articles[i].success <=> articles[i].real_url # ""
        /\ articles[i].content_fetched <=> articles[i].content # ""

\* C24 (as claimed): the summary of a record has at most 300 characters
\* whatever the length of the paragraph it is taken from; a paragraph of
\* more than 300 characters gives a summary that ends in the ellipsis, and a
\* paragraph of at most 300 characters is taken as it is.
C24_SummaryAtMostLimit ==
    ( text_in.fn = "summary" /\ text_out # <<>> ) =>
        LET summary == text_out[1]
        IN  /\ Len(summary) <= SummaryLimit
            /\ \A i \in DOMAIN text_in.arg :
                  ( /\ IsSummary(text_in.arg[i])
                    /\ \A j \in 1 .. (i - 1) : ~IsSummary(text_in.arg[j]) ) =>
                      IF Len(text_in.arg[i].text) > SummaryLimit
                      THEN SubSeq(summary, Len(summary) - 2, Len(summary)) = Ellipsis
                      ELSE summary = text_in.arg[i].text

\* C25 (as claimed): the text extract_article_text returns is the text of
\* the first selector of content_selectors that finds an element; it is the
\* text of the body only when no selector finds an element; it is empty when
\* no selector finds an element and there is no body.
C25_FirstSelectorElseBody ==
    ( text_in.fn = "extract_article_text" /\ text_out # <<>> ) =>
        LET html == text_in.arg
            text == text_out[1][1]
            matched == {i \in DOMAIN content_selectors : html.elems[i] # "none"}
        IN  /\ \A i \in matched :
                  (\A j \in matched : i <= j) =>
                      text = GetText(html.elems[i], content_selectors[i])
            /\ matched = {} /\ html.body # "none" => text = GetText(html.body, "body")
            /\ matched = {} /\ html.body = "none" => text = ""

\* C26 (as claimed): is_logged_in goes from True to False only in the
\* empty-result branch of crawl_and_extract, and from False to True only in
\* a login() call that ran the handshake and returns True or in the load of
\* the cookie file by the constructor; no other step changes it.
C26_LoginFlagChangesOnlyThere ==
    [][ is_logged_in' # is_logged_in =>
            IF is_logged_in
            THEN pc = "invalidate"
            ELSE \/ pc = "ctor"
                 \/ pc = "captured" /\ login_ret' = "true" /\ handshake' ]_vars

\* C27: in one crawl_and_extract call a worker is started only in its batch,
\* after a search of the call found records, and a fetch worker only in the
\* fetch batch, where no resolve worker is left; while a worker of a batch
\* runs the control thread stays in that batch, so the batch's results are
\* read, the next stage is begun and crawl_and_extract returns only when no
\* worker runs, also after a worker raised.
C27_StagesOrderedBatchesAreBarriers ==
    /\ [](InStatus({"pending", "running", "fetched", "raised", "cancelled"}) # {} =>
            /\ pc \in {"resolving", "resolve_abort", "fetching"}
            /\ searches # <<>>
            /\ articles # <<>>)
    /\ [](pc = "fetching" => InStatus({"raised", "cancelled"}) = {})
    /\ [][ /\ \A i \in DOMAIN status :
                ( /\ i \in DOMAIN status' /\ status'[i] = "running"
                  /\ status[i] # "running" ) =>
                    /\ status[i] = "pending"
                    /\ pc \in {"resolving", "fetching"}
                    /\ pc' = pc
           /\ InStatus({"running", "fetched"}) # {} =>
                /\ pc' = pc \/ (pc = "resolving" /\ pc' = "resolve_abort")
                /\ crawl_ret' = crawl_ret
                /\ DOMAIN status' = DOMAIN status
           /\ pc' = "crawl_returned" /\ pc # "crawl_returned" =>
                InStatus({"running", "fetched"}) = {} ]_vars

\* crawl_and_extract returns after a batch in which one resolve worker
\* raised while another was still running
C27_Witness ==
    /\ pc = "resolve_abort"
    /\ InStatus({"raised"}) # {}
    /\ InStatus({"running"}) = {}
    /\ InStatus({"done"}) # {}
    /\ ENABLED ResolveRaise

\* C28: the polling loop makes at most 60 passes, each pass that does not
\* end the loop counting one; after the 60th the handshake returns False;
\* the loop is left with login_success set only by a pass, one of the 60,
\* that saw a marker cookie or the login button no longer visible (a pass
\* whose is_visible() raised and saw no marker cookie goes on to the next);
\* and a login() that ran the handshake returns True only from there.
C28_PollingBoundedSuccessObserved ==
    /\ [](poll_i \in 0 .. PollTicks)
    /\ [](pc = "captured" => observed.marker \/ observed.button = "hidden")
    /\ [][ /\ pc = "poll" /\ pc' = "poll" => poll_i' = poll_i + 1
           /\ pc = "poll" /\ pc' = "captured" => poll_i < PollTicks
           /\ pc = "poll" /\ poll_i = PollTicks =>
                pc' = "login_returned" /\ login_ret' = "false"
           /\ ( /\ pc # "login_returned" /\ pc' = "login_returned"
                /\ login_ret' = "true" /\ handshake' ) => pc = "captured" ]_vars

\* sixty passes saw neither a marker cookie nor the button gone
C28_Witness ==
    /\ pc = "poll"
    /\ poll_i = PollTicks
    /\ ~is_logged_in

\* C29 (as claimed): every record crawl_and_extract(query, ...) saves is
\* stored with the keyword field equal to that query, whatever the query.
C29_StoredKeywordIsQuery ==
    \A c \in save_log :
        (c.item # 0 /\ c.result) =>
            /\ c.keyword = query
            /\ \E r \in storage : r.title = c.title /\ r.keyword = query

====
